---- MODULE Spec2Model ----
(***************************************************************************)
(* A model of the ComEd pricing action of streamdeck-energy-prices        *)
(* (class ComedPricing): the lifecycle handlers onWillAppear,             *)
(* onWillDisappear and onKeyDown, the asynchronous tick updatePricing     *)
(* with one step per await, and the pure helpers calculateTrend,          *)
(* formatPrice, generatePricingSVG and generateErrorSVG.                  *)
(*                                                                         *)
(* Strings that the code inspects character by character (price literals, *)
(* formatted prices) are sequences of one-character strings.  The three   *)
(* non-ASCII characters of the source are written by their code points.   *)
(* Numbers are decimal fixed-point integers: a parsed price is an integer *)
(* count of 10^-Prec cents, exact for every literal of at most Prec       *)
(* fraction digits, which is what the literal sets below generate.        *)
(***************************************************************************)
EXTENDS Integers, Sequences, FiniteSets, Bags, TLC

(***************************************************************************)
(* Bounds of the model.                                                    *)
(***************************************************************************)
\* fraction digits of the generated price literals
MaxFrac == 2
\* generated price literals have integer parts 0..MaxInt (plus SpecialInts)
MaxInt == 11
\* host events (appear, disappear, key press, timer firing) in one behaviour
MaxEvents == 3
\* ticks (updatePricing invocations) in flight at once
MaxTicks == 2
\* boundary calls that reject in one behaviour of SpecSinkFail
MaxRejects == 1
\* price literals compared pairwise: integer parts 0..MaxPairInt, at most
\* MaxPairFrac fraction digits
MaxPairInt == 1
MaxPairFrac == 1
\* entries of a 5-minute feed handed to the synchronous part of a tick
MaxFeedLen == 2
\* interval timers alive or about to be set in one behaviour of SpecLive
MaxTimers == 1

(***************************************************************************)
(* Characters and literals.                                                *)
(***************************************************************************)
Cent == "U+00A2"
UpGlyph == "U+25B2"
DownGlyph == "U+25BC"

Digits == <<"0", "1", "2", "3", "4", "5", "6", "7", "8", "9">>

DigitSet == {Digits[i] : i \in 1..10}

DigitVal(c) == (CHOOSE i \in 1..10 : Digits[i] = c) - 1

\* the price literal "N/A" and an absent (undefined) value
NA == <<"N", "/", "A">>

Undefined == "undefined"

RECURSIVE Pow10(_)
Pow10(n) == IF n <= 0 THEN 1 ELSE 10 * Pow10(n - 1)

\* decimal digits of a natural number, as Number.prototype.toString prints them
RECURSIVE NatChars(_)
NatChars(n) == IF n < 10 THEN <<Digits[n + 1]>>
               ELSE NatChars(n \div 10) \o <<Digits[(n % 10) + 1]>>

\* exactly k decimal digits of n, zero-padded on the left
RECURSIVE PadChars(_, _)
PadChars(n, k) == IF k = 0 THEN <<>>
                  ELSE PadChars(n \div 10, k - 1) \o <<Digits[(n % 10) + 1]>>

(***************************************************************************)
(* parseFloat (ECMAScript): skip leading white space, an optional sign,   *)
(* the longest prefix of digits [. digits]; NaN when that prefix holds no *)
(* digit.  Trailing characters are ignored.  Exponents and "Infinity" do  *)
(* not occur in the literals generated here.                              *)
(***************************************************************************)
\* fraction digits a parsed number carries
Prec == MaxFrac

NaN == [nan |-> TRUE, v |-> 0]

Num(v) == [nan |-> FALSE, v |-> v]

RECURSIVE SkipWs(_)
SkipWs(s) == IF s # <<>> /\ s[1] = " " THEN SkipWs(Tail(s)) ELSE s

\* number of leading digit characters of s
RECURSIVE DigitRun(_)
DigitRun(s) == IF s # <<>> /\ s[1] \in DigitSet THEN 1 + DigitRun(Tail(s)) ELSE 0

\* value of the first n characters of s, all digits
RECURSIVE DigitsVal(_, _)
DigitsVal(s, n) == IF n = 0 THEN 0
                   ELSE 10 * DigitsVal(s, n - 1) + DigitVal(s[n])

parseFloat(str) ==
    IF str = Undefined THEN NaN
    ELSE
    LET t == SkipWs(str)
        hasSign == t # <<>> /\ t[1] \in {"+", "-"}
        neg == hasSign /\ t[1] = "-"
        u == IF hasSign THEN Tail(t) ELSE t
        ni == DigitRun(u)
        rest == SubSeq(u, ni + 1, Len(u))
        hasDot == rest # <<>> /\ rest[1] = "."
        fr == IF hasDot THEN Tail(rest) ELSE <<>>
        nf == DigitRun(fr)
        \* fraction digits kept: all of them for literals of at most Prec digits
        kf == IF nf > Prec THEN Prec ELSE nf
        mag == DigitsVal(u, ni) * Pow10(Prec) + DigitsVal(fr, kf) * Pow10(Prec - kf)
    IN  IF ni + nf = 0 THEN NaN
        ELSE Num(IF neg THEN 0 - mag ELSE mag)

isNaN(x) == x.nan

(***************************************************************************)
(* Number.prototype.toFixed(f) of the double nearest to x = v / 10^p.     *)
(* toFixed picks the integer n with n / 10^f closest to the double, the   *)
(* larger n on a tie.  The double differs from the decimal x by less than *)
(* any distance that matters unless x lies exactly half way between two   *)
(* candidates; there x = K / (2 * 10^f) with K odd, and the direction in  *)
(* which IEEE-754 round-to-nearest moved the double decides.  That        *)
(* direction is the position of the fractional part of x * 2^s (s = 52 - *)
(* floor(log2 x)) relative to 1/2, computed modulo the denominator.       *)
(* In the dollars case x = cents / 100 the cents value of a half-way case *)
(* is a half-integer, exactly representable, so the quotient is rounded   *)
(* once and the same computation applies.                                 *)
(***************************************************************************)
RECURSIVE PowMod2(_, _)
PowMod2(s, m) == IF s = 0 THEN 1 % m ELSE (2 * PowMod2(s - 1, m)) % m

\* largest e with m * 2^e <= k, for k >= m
RECURSIVE ExpUp(_, _)
ExpUp(k, m) == IF 2 * m <= k THEN 1 + ExpUp(k, 2 * m) ELSE 0

\* smallest e with k * 2^e >= m, for 0 < k
RECURSIVE ExpDown(_, _)
ExpDown(k, m) == IF k >= m THEN 0 ELSE 1 + ExpDown(2 * k, m)

\* sign of (double nearest to k/m) - k/m, for k > 0
DoubleErrSign(k, m) ==
    LET e == IF k >= m THEN ExpUp(k, m) ELSE 0 - ExpDown(k, m)
        r == ((k % m) * PowMod2(52 - e, m)) % m
    IN  IF r = 0 THEN 0 ELSE IF 2 * r < m THEN 0 - 1 ELSE 1

\* the integer n of toFixed for |x| = a / 10^p
FixedInt(a, p, f) ==
    IF p <= f THEN a * Pow10(f - p)
    ELSE LET unit == Pow10(p - f)
             q == a \div unit
             rem == a % unit
             half == unit \div 2
         IN  IF rem < half THEN q
             ELSE IF rem > half THEN q + 1
             ELSE IF DoubleErrSign(2 * q + 1, 2 * Pow10(f)) < 0 THEN q ELSE q + 1

toFixed(v, p, f) ==
    LET a == IF v < 0 THEN 0 - v ELSE v
        n == FixedInt(a, p, f)
    IN  (IF v < 0 THEN <<"-">> ELSE <<>>)
        \o NatChars(n \div Pow10(f))
        \o (IF f = 0 THEN <<>> ELSE <<".">> \o PadChars(n % Pow10(f), f))

(***************************************************************************)
(* calculateTrend                                                          *)
(***************************************************************************)
\* JavaScript falsiness of an optional string: undefined or ""
Falsy(s) == s = Undefined \/ s = <<>>

\* mutant: the comparison taken the wrong way round
calculateTrend_Swapped(previousPrice, currentPrice) ==
    IF Falsy(previousPrice) \/ previousPrice = NA \/ currentPrice = NA
    THEN "neutral"
    ELSE LET prev == parseFloat(previousPrice)
             current == parseFloat(currentPrice)
         IN  IF isNaN(prev) \/ isNaN(current) THEN "neutral"
             ELSE IF prev.v > current.v THEN "up"
             ELSE IF prev.v < current.v THEN "down"
             ELSE "neutral"

calculateTrend(previousPrice, currentPrice) ==
    IF Falsy(previousPrice) \/ previousPrice = NA \/ currentPrice = NA
    THEN "neutral"
    ELSE LET prev == parseFloat(previousPrice)
             current == parseFloat(currentPrice)
         IN  IF isNaN(prev) \/ isNaN(current) THEN "neutral"
             ELSE IF current.v > prev.v THEN "up"
             ELSE IF current.v < prev.v THEN "down"
             ELSE "neutral"

(***************************************************************************)
(* formatPrice                                                             *)
(***************************************************************************)
formatPrice(priceStr) ==
    IF priceStr = NA THEN NA
    ELSE LET cents == parseFloat(priceStr)
         IN  IF isNaN(cents) THEN NA
             \* dollars = cents / 100, carried with two more fraction digits
             ELSE IF cents.v >= 100 * Pow10(Prec)
                  THEN <<"$">> \o toFixed(cents.v, Prec + 2, 2)
                  ELSE toFixed(cents.v, Prec, 1) \o <<Cent>>

\* the formatter the test suite exercises, with its third branch
formatPriceTested(priceStr) ==
    IF priceStr = NA THEN NA
    ELSE LET cents == parseFloat(priceStr)
         IN  IF isNaN(cents) THEN NA
             ELSE IF cents.v >= 100 * Pow10(Prec)
                  THEN <<"$">> \o toFixed(cents.v, Prec + 2, 2)
             ELSE IF cents.v >= 10 * Pow10(Prec)
                  THEN toFixed(cents.v, Prec, 1) \o <<Cent>>
             ELSE toFixed(cents.v, Prec, 2) \o <<Cent>>

(***************************************************************************)
(* generatePricingSVG, generateErrorSVG.  An SVG document is the sequence  *)
(* of its elements, each with its fill colour and its text content.        *)
(***************************************************************************)
Elem(tag, fill, text) == [tag |-> tag, fill |-> fill, text |-> text]

\* mutant: the trend glyph takes the colour of the price level
generatePricingSVG_PriceColour(fiveMinPrice, hourlyPrice, rawFiveMinPrice, trend) ==
    LET priceNum == parseFloat(rawFiveMinPrice)
        isHighPrice == ~isNaN(priceNum) /\ priceNum.v > 10 * Pow10(Prec)
        primaryColor == IF isHighPrice THEN "#ff4444" ELSE "#44ff44"
        trendSymbol == IF trend = "up" THEN <<UpGlyph>>
                       ELSE IF trend = "down" THEN <<DownGlyph>> ELSE <<>>
    IN  <<Elem("rect", "#000000", <<>>),
          Elem("text", primaryColor, fiveMinPrice)>>
        \o (IF trend # "neutral" THEN <<Elem("text", primaryColor, trendSymbol)>> ELSE <<>>)
        \o <<Elem("text", "#cccccc", hourlyPrice \o <<" ", "a", "v", "g">>)>>

generatePricingSVG(fiveMinPrice, hourlyPrice, rawFiveMinPrice, trend) ==
    LET priceNum == parseFloat(rawFiveMinPrice)
        isHighPrice == ~isNaN(priceNum) /\ priceNum.v > 10 * Pow10(Prec)
        primaryColor == IF isHighPrice THEN "#ff4444" ELSE "#44ff44"
        secondaryColor == "#cccccc"
        backgroundColor == "#000000"
        trendColor == IF trend = "up" THEN "#ff4444"
                      ELSE IF trend = "down" THEN "#44ff44" ELSE "#888888"
        trendSymbol == IF trend = "up" THEN <<UpGlyph>>
                       ELSE IF trend = "down" THEN <<DownGlyph>> ELSE <<>>
    IN  <<Elem("rect", backgroundColor, <<>>),
          Elem("text", primaryColor, fiveMinPrice)>>
        \o (IF trend # "neutral" THEN <<Elem("text", trendColor, trendSymbol)>> ELSE <<>>)
        \o <<Elem("text", secondaryColor, hourlyPrice \o <<" ", "a", "v", "g">>)>>

generateErrorSVG ==
    <<Elem("rect", "#000000", <<>>),
      Elem("text", "#ff4444", <<"E", "R", "R", "O", "R">>)>>

\* `data:image/svg+xml,${encodeURIComponent(svg)}`: the encoding is injective
\* and no code of the repository decodes it, so the URI carries the document
DataUri(svg) == [scheme |-> "data:image/svg+xml", svg |-> svg]

(***************************************************************************)
(* The synchronous part of updatePricing.  A feed is the sequence of the  *)
(* price fields of its entries, newest first; an entry without a price    *)
(* field contributes Undefined.                                            *)
(***************************************************************************)
\* data[i]?.price, with i counted from 0 as in the source
PriceAt(data, i) == IF i + 1 <= Len(data) THEN data[i + 1] ELSE Undefined

currentFiveMinPrice(fiveMinData) ==
    IF Falsy(PriceAt(fiveMinData, 0)) THEN NA ELSE PriceAt(fiveMinData, 0)

currentHourlyPrice(hourlyData) ==
    IF Falsy(PriceAt(hourlyData, 0)) THEN NA ELSE PriceAt(hourlyData, 0)

\* mutant: the previous price read from the newest entry
previousFiveMinPrice_Newest(fiveMinData) == PriceAt(fiveMinData, 0)

previousFiveMinPrice(fiveMinData) == PriceAt(fiveMinData, 1)

trendOf(fiveMinData) ==
    calculateTrend(previousFiveMinPrice(fiveMinData), currentFiveMinPrice(fiveMinData))

\* mutant: the threshold taken inclusive
stateIndex_Inclusive(price) ==
    LET fiveMinPriceNum == parseFloat(price)
    IN  IF ~isNaN(fiveMinPriceNum) /\ fiveMinPriceNum.v >= 10 * Pow10(Prec) THEN 1 ELSE 0

\* const state = fiveMinPriceNum > 10 ? 1 : 0
stateIndex(price) ==
    LET fiveMinPriceNum == parseFloat(price)
    IN  IF ~isNaN(fiveMinPriceNum) /\ fiveMinPriceNum.v > 10 * Pow10(Prec) THEN 1 ELSE 0

\* the reading of Date.now(): an opaque value, no code reads lastUpdate back
DateNow == "Date.now()"

pricingSettings(fiveMinData, hourlyData) ==
    [fiveMinPrice |-> currentFiveMinPrice(fiveMinData),
     hourlyPrice |-> currentHourlyPrice(hourlyData),
     fiveMinFormatted |-> formatPrice(currentFiveMinPrice(fiveMinData)),
     hourlyFormatted |-> formatPrice(currentHourlyPrice(hourlyData)),
     trend |-> trendOf(fiveMinData),
     lastUpdate |-> DateNow]

pricingImage(fiveMinData, hourlyData) ==
    DataUri(generatePricingSVG(formatPrice(currentFiveMinPrice(fiveMinData)),
                               formatPrice(currentHourlyPrice(hourlyData)),
                               currentFiveMinPrice(fiveMinData),
                               trendOf(fiveMinData)))

ErrorImage == DataUri(generateErrorSVG)

\* a boundary call: the sink called and its argument, in the field of that
\* sink (the other fields are blank)
NoImage == [scheme |-> "", svg |-> <<>>]

NoSettings == [fiveMinPrice |-> <<>>, hourlyPrice |-> <<>>, fiveMinFormatted |-> <<>>,
               hourlyFormatted |-> <<>>, trend |-> "", lastUpdate |-> ""]

BlankCall(sink) == [sink |-> sink, image |-> NoImage, title |-> "",
                    settings |-> NoSettings, state |-> 0]

SinkCall(sink, arg) == [BlankCall(sink) EXCEPT ![sink] = arg]

Arg(call) == call[call.sink]

\* mutant: the settings stored before the title is cleared
TryCall_SettingsFirst(k, fiveMinData, hourlyData) ==
    CASE k = 1 -> SinkCall("image", pricingImage(fiveMinData, hourlyData))
      [] k = 2 -> SinkCall("settings", pricingSettings(fiveMinData, hourlyData))
      [] k = 3 -> SinkCall("title", "")
      [] k = 4 -> SinkCall("state", stateIndex(currentFiveMinPrice(fiveMinData)))

\* the k-th boundary call of the try block, in program order
TryCall(k, fiveMinData, hourlyData) ==
    CASE k = 1 -> SinkCall("image", pricingImage(fiveMinData, hourlyData))
      [] k = 2 -> SinkCall("title", "")
      [] k = 3 -> SinkCall("settings", pricingSettings(fiveMinData, hourlyData))
      [] k = 4 -> SinkCall("state", stateIndex(currentFiveMinPrice(fiveMinData)))

\* the k-th boundary call of the catch block, in program order
CatchCall(k) ==
    CASE k = 1 -> SinkCall("title", "Error")
      [] k = 2 -> SinkCall("image", ErrorImage)

\* mutant: the status of the hourly response is not looked at
ResponsesOk_FiveOnly(fiveMinOk, hourlyOk) == fiveMinOk

\* if (!fiveMinResponse.ok || !hourlyResponse.ok) throw
ResponsesOk(fiveMinOk, hourlyOk) == fiveMinOk /\ hourlyOk

(***************************************************************************)
(* State.                                                                  *)
(***************************************************************************)
VARIABLES
    updateInterval,  \* ComedPricing.updateInterval: a timer handle or NoHandle
    timers,          \* the interval timers alive in the runtime
    ticks,           \* the updatePricing invocations in flight (a bag)
    display,         \* the boundary: image, title, settings, state of the key
    now,             \* host events so far
    lastLifecycle,   \* the last lifecycle handler that ran
    rejects,         \* boundary calls that have rejected
    escaped,         \* updatePricing invocations that ended by throwing
    pin,             \* input of a pure-function evaluation
    pout             \* its result

vars == <<updateInterval, timers, ticks, display, now, lastLifecycle, rejects,
          escaped, pin, pout>>

\* this.updateInterval = undefined (timer handles are numbered from 1)
NoHandle == 0

NotSet == "notset"
None == "none"

\* what response.json() settles with: a rejection (malformed JSON), JSON null,
\* or an array of entries
Body(kind, data) == [kind |-> kind, data |-> data]

NoData == Body("none", <<>>)

NullJson == Body("null", <<>>)

Malformed == Body("malformed", <<>>)

\* price literals of the feeds the ticks receive
Lit_8_5 == <<"8", ".", "5">>
Lit_7_2 == <<"7", ".", "2">>
Lit_7_0 == <<"7", ".", "0">>
Lit_15_7 == <<"1", "5", ".", "7">>

\* the pairs of bodies the two responses of one tick can carry
Responses ==
    { <<Body("array", <<Lit_8_5, Lit_7_2>>), Body("array", <<Lit_7_0>>)>>,
      <<Body("array", <<Lit_15_7>>), Body("array", <<>>)>>,
      <<Malformed, Body("array", <<Lit_7_0>>)>>,
      <<NullJson, Body("array", <<Lit_7_0>>)>> }

\* a pair of well-formed bodies
WellFormed == <<Body("array", <<Lit_8_5, Lit_7_2>>), Body("array", <<Lit_7_0>>)>>

\* the boundary calls of the try block for each pair of bodies, computed once
TryCalls == {<<b, k, TryCall(k, b[1].data, b[2].data)>> : b \in Responses, k \in 1..4}

TryCallAt(b, k) == (CHOOSE c \in TryCalls : c[1] = b /\ c[2] = k)[3]

InitDisplay == [image |-> NoImage, title |-> NotSet, settings |-> NoSettings, state |-> 0]

DynInit ==
    /\ updateInterval = NoHandle
    /\ timers = {}
    /\ ticks = EmptyBag
    /\ display = InitDisplay
    /\ now = 0
    /\ lastLifecycle = None
    /\ rejects = 0
    /\ escaped = 0

NoInput == [fn |-> "none"]

NoOutput == [done |-> FALSE, val |-> None]

Init == DynInit /\ pin = NoInput /\ pout = NoOutput

(***************************************************************************)
(* Steps of a tick.  Between two awaits the code runs without             *)
(* interleaving; each action below is one such stretch.  A boundary call  *)
(* takes effect when it is made, and the promise it returns settles       *)
(* later: t.rej tells whether it will reject (a rejected call has had no  *)
(* effect).  budget is the number of boundary calls the host may reject.  *)
(***************************************************************************)
InFlight == BagToSet(ticks)

Replace(t, u) == (ticks (-) SetToBag({t})) (+) SetToBag({u})

Remove(t) == ticks (-) SetToBag({t})

Rejs(budget) == IF rejects < budget THEN {FALSE, TRUE} ELSE {FALSE}

Effect(call, rej) ==
    IF rej THEN display ELSE [display EXCEPT ![call.sink] = Arg(call)]

\* tick t, its locals now those of u, makes a boundary call and suspends on it
Call(t, u, call, pc, budget) ==
    \E rej \in Rejs(budget) :
        /\ display' = Effect(call, rej)
        /\ rejects' = IF rej THEN rejects + 1 ELSE rejects
        /\ ticks' = Replace(t, [u EXCEPT !.pc = pc, !.rej = rej,
                                         !.log = Append(u.log, call)])
        /\ UNCHANGED <<updateInterval, timers, escaped>>

\* control enters the catch block: console.error, then await setTitle('Error')
EnterCatch(t, u, budget) == Call(t, u, CatchCall(1), "catchTitle", budget)

\* a fresh timer handle: none that is alive (a cleared handle is referenced
\* nowhere, updateInterval being reset with it)
NewHandle == CHOOSE h \in 1..(Cardinality(timers) + 1) : h \notin timers

\* mutant: onWillAppear sets no timer after its initial tick
Return_NoTimer(t) ==
    /\ ticks' = Remove(t)
    /\ UNCHANGED <<timers, updateInterval, display, rejects, escaped>>

\* updatePricing returns; onWillAppear goes on to setInterval
Return(t) ==
    /\ ticks' = Remove(t)
    /\ IF t.caller = "onWillAppear"
       THEN /\ timers' = timers \cup {NewHandle}
            /\ updateInterval' = NewHandle
       ELSE UNCHANGED <<timers, updateInterval>>
    /\ UNCHANGED <<display, rejects, escaped>>

\* updatePricing throws: the handler that awaited it rejects
Throw(t) ==
    /\ ticks' = Remove(t)
    /\ escaped' = escaped + 1
    /\ UNCHANGED <<display, rejects, timers, updateInterval>>

\* updatePricing is called: both fetches are issued and awaited
StartTick(caller) ==
    /\ now < MaxEvents
    /\ BagCardinality(ticks) < MaxTicks
    /\ now' = now + 1
    /\ ticks' = ticks (+) SetToBag({[caller |-> caller, pc |-> "fetch",
                                     outcome |-> "pending", five |-> NoData,
                                     hourly |-> NoData, log |-> <<>>, rej |-> FALSE]})
    /\ UNCHANGED <<display, rejects, escaped>>

onWillAppear ==
    /\ StartTick("onWillAppear")
    /\ lastLifecycle' = "appear"
    /\ UNCHANGED <<updateInterval, timers, pin, pout>>

onWillDisappear ==
    /\ now < MaxEvents
    /\ now' = now + 1
    /\ IF updateInterval # NoHandle
       THEN /\ timers' = timers \ {updateInterval}
            /\ updateInterval' = NoHandle
       ELSE UNCHANGED <<timers, updateInterval>>
    /\ lastLifecycle' = "disappear"
    /\ UNCHANGED <<ticks, display, rejects, escaped, pin, pout>>

onKeyDown ==
    /\ StartTick("onKeyDown")
    /\ UNCHANGED <<updateInterval, timers, lastLifecycle, pin, pout>>

\* the callback of a live interval timer runs
TimerFire ==
    /\ timers # {}
    /\ StartTick("setInterval")
    /\ UNCHANGED <<updateInterval, timers, lastLifecycle, pin, pout>>

\* what the fetches and the bodies of a tick amount to
Fact(transport, fiveMinOk, hourlyOk, bodies) ==
    IF transport THEN "transport"
    ELSE IF ~(fiveMinOk /\ hourlyOk) THEN "status"
    ELSE IF Malformed \in {bodies[1], bodies[2]} THEN "parse"
    ELSE IF NullJson \in {bodies[1], bodies[2]} THEN "shape"
    ELSE "ok"

\* Promise.all of the two fetches settles (a transport failure, or two
\* responses with their status and body) and the code runs on to its first
\* boundary call.  The awaits of the two json() calls lie in between: no
\* shared state is read or written there, so the stretch is one action.
\* Indexing JSON null (fiveMinData[0]) throws a TypeError.
FetchSettle(t, budget) ==
    /\ t.pc = "fetch"
    /\ \E transport \in BOOLEAN, fiveMinOk \in BOOLEAN, hourlyOk \in BOOLEAN,
          bodies \in Responses :
         LET fact == Fact(transport, fiveMinOk, hourlyOk, bodies)
             failed == [t EXCEPT !.outcome = fact]
             got == [failed EXCEPT !.five = bodies[1], !.hourly = bodies[2]]
         IN  \* one representative of the inputs the code does not look at
             /\ transport => fiveMinOk /\ hourlyOk
             /\ fact \in {"transport", "status"} => bodies = WellFormed
             /\ IF transport \/ ~ResponsesOk(fiveMinOk, hourlyOk)
                THEN EnterCatch(t, failed, budget)
                ELSE IF bodies[1] = Malformed \/ bodies[2] = Malformed
                THEN EnterCatch(t, got, budget)
                ELSE IF bodies[1] = NullJson \/ bodies[2] = NullJson
                THEN EnterCatch(t, got, budget)
                ELSE Call(t, got, TryCallAt(bodies, 1), "setImage", budget)
    /\ UNCHANGED <<now, lastLifecycle, pin, pout>>

TryPcs == <<"setImage", "setTitle", "setSettings", "setState">>

\* an awaited boundary call of the try block settles
SinkSettle(t, budget) ==
    /\ \E k \in 1..4 :
         /\ t.pc = TryPcs[k]
         /\ IF t.rej
            THEN EnterCatch(t, t, budget)
            ELSE IF k < 4
            THEN Call(t, t, TryCallAt(<<t.five, t.hourly>>, k + 1), TryPcs[k + 1], budget)
            ELSE Return(t)
    /\ UNCHANGED <<now, lastLifecycle, pin, pout>>

\* an awaited boundary call of the catch block settles
CatchSettle(t, budget) ==
    /\ t.pc \in {"catchTitle", "catchImage"}
    /\ IF t.rej
       THEN Throw(t)
       ELSE IF t.pc = "catchTitle"
       THEN Call(t, t, CatchCall(2), "catchImage", budget)
       ELSE Return(t)
    /\ UNCHANGED <<now, lastLifecycle, pin, pout>>

TickStep(budget) ==
    \E t \in InFlight :
        \/ FetchSettle(t, budget)
        \/ SinkSettle(t, budget)
        \/ CatchSettle(t, budget)

HostEvent == onWillAppear \/ onWillDisappear \/ onKeyDown \/ TimerFire

\* the host's sinks always fulfil
Next == HostEvent \/ TickStep(0)

Spec == Init /\ [][Next]_vars

\* the host's sinks may reject
NextSinkFail == HostEvent \/ TickStep(MaxRejects)

SpecSinkFail == Init /\ [][NextSinkFail]_vars

(***************************************************************************)
(* The action left running: host events without a bound on their number.  *)
(* A tick carries the flag solo: no other updatePricing has been in       *)
(* flight since it started.  The callback of a live interval timer runs   *)
(* every UPDATE_INTERVAL_MS whatever else is in flight, and a pending     *)
(* fetch or boundary call settles: hence the fairness of SpecLive.        *)
(***************************************************************************)
Overlapped(t) == [t EXCEPT !.solo = FALSE]

\* the ticks in flight, none of them solo any more
AllOverlapped ==
    LET Copies(u) == IF u \in InFlight THEN ticks[u] ELSE 0
    IN  [u \in {Overlapped(t) : t \in InFlight} |->
            Copies(u) + Copies([u EXCEPT !.solo = TRUE])]

\* onWillAppear ticks in flight: each will set a timer when it returns
Appearing == BagCardinality([t \in {u \in InFlight : u.caller = "onWillAppear"} |-> ticks[t]])

\* updatePricing is called: both fetches are issued and awaited
LiveStart(caller) ==
    /\ BagCardinality(ticks) < MaxTicks
    /\ ticks' = AllOverlapped
                 (+) SetToBag({[caller |-> caller, pc |-> "fetch",
                                outcome |-> "pending", five |-> NoData,
                                hourly |-> NoData, log |-> <<>>, rej |-> FALSE,
                                solo |-> ticks = EmptyBag]})
    /\ UNCHANGED <<now, display, rejects, escaped, pin, pout>>

LiveAppear ==
    /\ Cardinality(timers) + Appearing < MaxTimers
    /\ LiveStart("onWillAppear")
    /\ lastLifecycle' = "appear"
    /\ UNCHANGED <<updateInterval, timers>>

LiveDisappear ==
    /\ IF updateInterval # NoHandle
       THEN /\ timers' = timers \ {updateInterval}
            /\ updateInterval' = NoHandle
       ELSE UNCHANGED <<timers, updateInterval>>
    /\ lastLifecycle' = "disappear"
    /\ UNCHANGED <<ticks, display, now, rejects, escaped, pin, pout>>

LiveKeyDown ==
    /\ LiveStart("onKeyDown")
    /\ UNCHANGED <<updateInterval, timers, lastLifecycle>>

LiveTimerFire ==
    /\ timers # {}
    /\ LiveStart("setInterval")
    /\ UNCHANGED <<updateInterval, timers, lastLifecycle>>

\* what the upstream does to a tick here: it answers both requests with
\* the well-formed bodies, or the fetch pair fails
Upstream == {"pending", "ok", "transport", "status"}

LiveTick ==
    /\ TickStep(0)
    /\ \A t \in BagToSet(ticks') :
          /\ t.outcome \in Upstream
          /\ t.outcome = "ok" => <<t.five, t.hourly>> = WellFormed

NextLive == LiveAppear \/ LiveDisappear \/ LiveKeyDown \/ LiveTimerFire \/ LiveTick

SpecLive == Init /\ [][NextLive]_vars /\ WF_vars(LiveTick) /\ SF_vars(LiveTimerFire)

(***************************************************************************)
(* The pure functions, applied to generated inputs.  A price literal is   *)
(* generated from a description (sign, integer part, fraction digits,     *)
(* trailing text), so that what it denotes is known apart from parsing.   *)
(***************************************************************************)
LitNum(neg, int, frac, suf) ==
    [kind |-> "num", neg |-> neg, int |-> int, frac |-> frac, suf |-> suf]

LitOther(kind) == [kind |-> kind, neg |-> FALSE, int |-> 0, frac |-> <<>>, suf |-> <<>>]

RECURSIVE DigitChars(_)
DigitChars(ds) == IF ds = <<>> THEN <<>>
                  ELSE <<Digits[ds[1] + 1]>> \o DigitChars(Tail(ds))

\* the literal a description stands for
Render(d) ==
    CASE d.kind = "undef" -> Undefined
      [] d.kind = "na" -> NA
      [] d.kind = "empty" -> <<>>
      [] d.kind = "text" -> <<"i", "n", "v", "a", "l", "i", "d">>
      [] d.kind = "num" ->
           (IF d.neg THEN <<"-">> ELSE <<>>) \o NatChars(d.int)
           \o (IF d.frac = <<>> THEN <<>> ELSE <<".">> \o DigitChars(d.frac))
           \o d.suf

\* digit sequences of length at most n over the digits ds
FracsUpTo(n, ds) == UNION {[1..k -> ds] : k \in 0..n}

\* integer parts beyond 0..MaxInt that the documented examples use
SpecialInts == {15, 99, 100, 125, 250, 262}

OddLits == {LitOther("na"), LitOther("empty"), LitOther("text"),
            LitNum(FALSE, 5, <<>>, <<"x">>), LitNum(FALSE, 10, <<1>>, <<" ", "c">>)}

\* fraction digits of the generated literals: below, at and above the
\* rounding point, and 9 for the carries
FracDigits == {0, 2, 5, 7, 9}

FormatLits ==
    {LitNum(neg, int, frac, <<>>) :
        neg \in BOOLEAN, int \in (0..MaxInt) \cup SpecialInts,
        frac \in FracsUpTo(MaxFrac, FracDigits)}
    \cup OddLits

PairLits ==
    {LitNum(neg, int, frac, <<>>) :
        neg \in BOOLEAN, int \in 0..MaxPairInt, frac \in FracsUpTo(MaxPairFrac, {0, 5, 9})}
    \cup OddLits

FeedLits == {LitNum(FALSE, 8, <<5>>, <<>>), LitNum(FALSE, 7, <<2>>, <<>>),
             LitNum(FALSE, 7, <<0>>, <<>>), LitNum(FALSE, 15, <<7>>, <<>>),
             LitNum(FALSE, 10, <<0>>, <<>>), LitOther("na"), LitOther("empty"),
             LitOther("text"), LitOther("undef")}

FeedsUpTo(n) == UNION {[1..k -> FeedLits] : k \in 0..n}

SvgLits == {LitNum(FALSE, 5, <<2>>, <<>>), LitNum(FALSE, 10, <<>>, <<>>),
            LitNum(FALSE, 10, <<0, 1>>, <<>>), LitNum(FALSE, 125, <<0>>, <<>>),
            LitNum(TRUE, 1, <<5>>, <<>>), LitOther("na"), LitOther("text")}

Trends == {"up", "down", "neutral"}

Input(fn, a, b, trend, five, hourly) ==
    [fn |-> fn, a |-> a, b |-> b, trend |-> trend, five |-> five, hourly |-> hourly]

Blank == LitOther("undef")

PureInputs ==
    {Input("formatPrice", a, Blank, "", <<>>, <<>>) : a \in FormatLits}
    \cup {Input("stateIndex", a, Blank, "", <<>>, <<>>) : a \in FormatLits}
    \cup {Input("calculateTrend", a, b, "", <<>>, <<>>) :
            a \in PairLits, b \in PairLits \cup {LitOther("undef")}}
    \cup {Input("generatePricingSVG", a, b, tr, <<>>, <<>>) :
            a \in SvgLits, b \in {LitNum(FALSE, 4, <<8>>, <<>>), LitOther("na")},
            tr \in Trends}
    \cup {Input("updatePricing", Blank, Blank, "", five, hourly) :
            five \in FeedsUpTo(MaxFeedLen), hourly \in FeedsUpTo(1)}

RenderFeed(feed) == [i \in 1..Len(feed) |-> Render(feed[i])]

PureInit == DynInit /\ pin \in PureInputs /\ pout = NoOutput

Yield(val) ==
    /\ ~pout.done
    /\ pout' = [done |-> TRUE, val |-> val]
    /\ UNCHANGED <<updateInterval, timers, ticks, display, now, lastLifecycle,
                   rejects, escaped, pin>>

ApplyFormatPrice ==
    /\ pin.fn = "formatPrice"
    /\ Yield(formatPrice(Render(pin.a)))

\* pin.b is the previous price, pin.a the current one
ApplyCalculateTrend ==
    /\ pin.fn = "calculateTrend"
    /\ Yield(calculateTrend(Render(pin.b), Render(pin.a)))

\* the state index a tick passes to setState when the newest entry is pin.a
ApplyStateIndex ==
    /\ pin.fn = "stateIndex"
    /\ Yield(TryCall(4, <<Render(pin.a)>>, <<>>).state)

ApplyGeneratePricingSVG ==
    /\ pin.fn = "generatePricingSVG"
    /\ Yield(generatePricingSVG(formatPrice(Render(pin.a)), formatPrice(Render(pin.b)),
                                Render(pin.a), pin.trend))

\* the boundary calls of the try block for the two parsed feeds
ApplyUpdatePricing ==
    /\ pin.fn = "updatePricing"
    /\ Yield([k \in 1..4 |-> TryCall(k, RenderFeed(pin.five), RenderFeed(pin.hourly))])

PureNext ==
    \/ ApplyFormatPrice
    \/ ApplyCalculateTrend
    \/ ApplyStateIndex
    \/ ApplyGeneratePricingSVG
    \/ ApplyUpdatePricing

SpecPure == PureInit /\ [][PureNext]_vars

(***************************************************************************)
(* What a generated literal denotes, read off its description.            *)
(***************************************************************************)
IsNum(d) == d.kind = "num"

RECURSIVE FracVal(_)
FracVal(ds) == IF ds = <<>> THEN 0 ELSE 10 * FracVal(SubSeq(ds, 1, Len(ds) - 1)) + ds[Len(ds)]

\* the number d denotes, in units of 10^-k (k at least the fraction digits of d)
DenoteAt(d, k) ==
    LET mag == d.int * Pow10(k) + FracVal(d.frac) * Pow10(k - Len(d.frac))
    IN  IF d.neg THEN 0 - mag ELSE mag

ExpectedTrend(prev, cur) ==
    IF prev.kind \in {"undef", "empty", "na"} \/ cur.kind = "na"
       \/ ~IsNum(prev) \/ ~IsNum(cur)
    THEN "neutral"
    ELSE LET k == Len(prev.frac) + Len(cur.frac)
         IN  IF DenoteAt(cur, k) > DenoteAt(prev, k) THEN "up"
             ELSE IF DenoteAt(cur, k) < DenoteAt(prev, k) THEN "down"
             ELSE "neutral"

Chars(text, c) == {i \in 1..Len(text) : text[i] = c}

\* the elements of an SVG document whose text holds the glyph
GlyphElems(svg, glyph) == {i \in 1..Len(svg) : Chars(svg[i].text, glyph) # {}}

IsPricingImage(img) == img # NoImage /\ img # ErrorImage

(***************************************************************************)
(* C1.  Once onWillDisappear has run last and every pending onWillAppear  *)
(* has finished, no interval timer started by the action is alive, so no  *)
(* timer-driven updatePricing can be launched any more.                    *)
(***************************************************************************)
C1_NoTimerAfterDisappear ==
    (lastLifecycle = "disappear"
     /\ \A t \in InFlight : t.caller # "onWillAppear")
    => timers = {}

(***************************************************************************)
(* C2.  When a timer-driven tick and a manual tick overlap, the display   *)
(* ends as one of them rendered it, never as a mix of the two (the error  *)
(* image with the empty title, a pricing image with the title "Error").   *)
(* Stated where both ticks have made their last boundary call and await   *)
(* it: nothing writes the display between there and the state where both  *)
(* have completed.                                                         *)
(***************************************************************************)
LastCallMade(t) == t.pc \in {"setState", "catchImage"}

C2_NoMixedSurface ==
    \A a, b \in InFlight :
        (/\ a.caller = "setInterval" /\ b.caller = "onKeyDown"
         /\ BagCardinality(ticks) = 2
         /\ LastCallMade(a) /\ LastCallMade(b)) =>
            /\ ~(display.image = ErrorImage /\ display.title = "")
            /\ ~(IsPricingImage(display.image) /\ display.title = "Error")

(***************************************************************************)
(* C3.  A tick whose fetch pair failed (transport failure or non-success  *)
(* status) calls setTitle("Error") and then setImage(error icon) and      *)
(* nothing else: no setSettings, no setState, no pricing icon.             *)
(***************************************************************************)
C3_FetchFailureEmitsErrorOnly ==
    \A t \in InFlight :
        t.outcome \in {"transport", "status"} =>
            /\ t.pc \in {"catchTitle", "catchImage"}
            /\ Len(t.log) = (IF t.pc = "catchTitle" THEN 1 ELSE 2)
            /\ t.log[1].sink = "title" /\ t.log[1].title = "Error"
            /\ t.pc = "catchImage" =>
                   t.log[2].sink = "image" /\ t.log[2].image = DataUri(generateErrorSVG)
            /\ \A i \in 1..Len(t.log) : t.log[i].sink \notin {"settings", "state"}

\* a tick with a non-success status has made both calls and they show
C3_Witness ==
    \E t \in InFlight :
        /\ t.outcome = "status" /\ t.pc = "catchImage"
        /\ display.title = "Error" /\ display.image = ErrorImage
        /\ display.settings = NoSettings

(***************************************************************************)
(* C4.  No updatePricing invocation ends by throwing, whatever the        *)
(* fetches, the JSON parsing and the boundary calls do.                    *)
(***************************************************************************)
C4_NoEscape == escaped = 0

(***************************************************************************)
(* C5.  formatPrice gives every literal its documented shape: "N/A" for   *)
(* "N/A" and non-numeric literals, "$" and dollars to 2 decimals from 100 *)
(* cents, cents to 1 decimal from 10 cents, cents to 2 decimals below     *)
(* (so "250.5" -> "$2.50", "15.7" -> "15.7c", "3.25" -> "3.25c").         *)
(***************************************************************************)
C5_FormatShapes ==
    (pin.fn = "formatPrice" /\ pout.done) =>
        /\ pout.val = formatPriceTested(Render(pin.a))
        /\ pin.a = LitNum(FALSE, 250, <<5>>, <<>>) => pout.val = <<"$", "2", ".", "5", "0">>
        /\ pin.a = LitNum(FALSE, 15, <<7>>, <<>>) => pout.val = <<"1", "5", ".", "7", Cent>>
        /\ pin.a = LitNum(FALSE, 3, <<2, 5>>, <<>>) => pout.val = <<"3", ".", "2", "5", Cent>>
        /\ pin.a.kind \in {"na", "text"} => pout.val = NA

(***************************************************************************)
(* C6.  A tick whose fetches succeeded and parsed calls, in this order,   *)
(* setImage(pricing icon), setTitle(""), setSettings(the six fields) and  *)
(* setState(classifier result); a title call is "" in such a tick and     *)
(* "Error" in a failed one, and the title never holds anything else.      *)
(***************************************************************************)
C6_SuccessEmitsInOrder ==
    /\ display.title \in {NotSet, "", "Error"}
    /\ \A t \in InFlight :
        /\ t.outcome = "ok" =>
            LET five == t.five.data
                hourly == t.hourly.data
                n == Len(t.log)
            IN  /\ n \in 1..4 /\ t.pc = TryPcs[n]
                /\ t.log[1].sink = "image"
                /\ t.log[1].image = DataUri(generatePricingSVG(
                       formatPrice(currentFiveMinPrice(five)),
                       formatPrice(currentHourlyPrice(hourly)),
                       currentFiveMinPrice(five), trendOf(five)))
                /\ n >= 2 => t.log[2].sink = "title" /\ t.log[2].title = ""
                /\ n >= 3 =>
                     /\ t.log[3].sink = "settings"
                     /\ DOMAIN t.log[3].settings =
                          {"fiveMinPrice", "hourlyPrice", "fiveMinFormatted",
                           "hourlyFormatted", "trend", "lastUpdate"}
                     /\ t.log[3].settings.fiveMinPrice = currentFiveMinPrice(five)
                     /\ t.log[3].settings.hourlyPrice = currentHourlyPrice(hourly)
                     /\ t.log[3].settings.fiveMinFormatted =
                          formatPrice(currentFiveMinPrice(five))
                     /\ t.log[3].settings.hourlyFormatted =
                          formatPrice(currentHourlyPrice(hourly))
                     /\ t.log[3].settings.trend = trendOf(five)
                     /\ t.log[3].settings.lastUpdate = DateNow
                /\ n >= 4 =>
                     /\ t.log[4].sink = "state"
                     /\ t.log[4].state = stateIndex(currentFiveMinPrice(five))
        /\ t.outcome \notin {"ok", "pending"} =>
            \A i \in 1..Len(t.log) : t.log[i].sink = "title" => t.log[i].title = "Error"

\* a successful tick has made its four calls and awaits the last
C6_Witness ==
    \E t \in InFlight :
        /\ t.outcome = "ok" /\ t.pc = "setState" /\ Len(t.log) = 4
        /\ display.title = "" /\ display.state = 1

(***************************************************************************)
(* C7.  calculateTrend is total; it is neutral when previous is absent or *)
(* empty, when previous or current is "N/A", or when either has no        *)
(* numeric parse; otherwise up iff current > previous, down iff current < *)
(* previous, neutral iff equal.                                            *)
(***************************************************************************)
C7_TrendTable ==
    (pin.fn = "calculateTrend" /\ pout.done) =>
        /\ pout.val \in Trends
        /\ pout.val = ExpectedTrend(pin.b, pin.a)

\* a rising pair of numeric literals was classified
C7_Witness ==
    /\ pin.fn = "calculateTrend" /\ pout.done
    /\ IsNum(pin.a) /\ IsNum(pin.b) /\ pout.val = "up"

(***************************************************************************)
(* C8.  The state index passed to setState is 1 iff the current 5-minute  *)
(* price parses to a value strictly greater than 10 cents, and 0          *)
(* otherwise (exactly 10, "N/A", a literal without numeric parse).         *)
(***************************************************************************)
C8_StateThreshold ==
    (pin.fn = "stateIndex" /\ pout.done) =>
        /\ pout.val \in {0, 1}
        /\ pout.val = 1 <=>
             (IsNum(pin.a)
              /\ DenoteAt(pin.a, Len(pin.a.frac)) > 10 * Pow10(Len(pin.a.frac)))

\* the literal "10.0" was classified normal
C8_Witness ==
    /\ pin.fn = "stateIndex" /\ pout.done
    /\ pin.a = LitNum(FALSE, 10, <<0>>, <<>>) /\ pout.val = 0

(***************************************************************************)
(* C9.  A successful tick takes the current 5-minute price from index 0   *)
(* of the 5-minute feed ("N/A" if the feed is empty), the previous price  *)
(* from index 1 (absent, so trend neutral, with fewer than 2 entries) and *)
(* the hourly price from index 0 of the hourly feed ("N/A" if empty); for *)
(* feeds [8.5, 7.2] and [7.0] the settings hold trend up, "8.5c", "7.0c"  *)
(* and the state is normal.                                                *)
(***************************************************************************)
HasPrice(d) == d.kind \notin {"undef", "empty"}

C10_TrendGlyph ==
    (pin.fn = "generatePricingSVG" /\ pout.done) =>
        LET svg == pout.val
            ups == GlyphElems(svg, UpGlyph)
            downs == GlyphElems(svg, DownGlyph)
        IN  /\ pin.trend = "up" =>
                /\ Cardinality(ups) = 1 /\ downs = {}
                /\ \A i \in ups : svg[i].fill = "#ff4444" /\ svg[i].text = <<UpGlyph>>
            /\ pin.trend = "down" =>
                /\ Cardinality(downs) = 1 /\ ups = {}
                /\ \A i \in downs : svg[i].fill = "#44ff44" /\ svg[i].text = <<DownGlyph>>
            /\ pin.trend = "neutral" => ups = {} /\ downs = {}

\* a falling trend at a high price: a green glyph beside a red price
C10_Witness ==
    /\ pin.fn = "generatePricingSVG" /\ pout.done
    /\ pin.trend = "down" /\ pin.a = LitNum(FALSE, 125, <<0>>, <<>>)
    /\ \E i \in GlyphElems(pout.val, DownGlyph) : pout.val[i].fill = "#44ff44"
    /\ pout.val[2].fill = "#ff4444"

(***************************************************************************)
(* C11.  While the action is displayed and its initial tick is over, the  *)
(* interval timer is alive, and a failed tick that has left the error     *)
(* state on the display is followed by a timer-driven tick (unless the    *)
(* action disappears first).  A tick that no other tick overlaps and      *)
(* whose fetches succeed and parse leaves the pricing icon and the title  *)
(* "" on the display; one whose fetch pair fails leaves the error icon    *)
(* and the title "Error", every time.                                      *)
(***************************************************************************)
Displayed == lastLifecycle = "appear" /\ Appearing = 0

ErrorShown == display.image = ErrorImage /\ display.title = "Error"

TimerTickInFlight == \E t \in InFlight : t.caller = "setInterval"

C11_SoloTicks ==
    /\ Displayed => timers # {}
    /\ \A t \in InFlight :
        t.solo =>
            /\ (t.outcome = "ok" /\ t.pc \in {"setTitle", "setSettings", "setState"}) =>
                   /\ t.log[1].sink = "image" /\ display.image = t.log[1].image
                   /\ IsPricingImage(display.image)
                   /\ display.title = ""
            /\ (t.outcome \in {"transport", "status"} /\ t.pc = "catchImage") => ErrorShown

C11_RetryOnNextTick ==
    /\ []C11_SoloTicks
    /\ (Displayed /\ ErrorShown /\ ticks = EmptyBag)
           ~> (TimerTickInFlight \/ lastLifecycle = "disappear")

\* a timer-driven tick that nothing overlaps has put the pricing icon over
\* the error state a failed tick left; its setTitle("") is yet to come
C11_Witness ==
    /\ Displayed /\ timers # {}
    /\ BagCardinality(ticks) = 1
    /\ \E t \in InFlight :
          /\ t.caller = "setInterval" /\ t.solo
          /\ t.outcome = "ok" /\ t.pc = "setImage"
          /\ display.image = t.log[1].image /\ IsPricingImage(display.image)
          /\ display.title = "Error"

(***************************************************************************)
(* C12.  After any sequence of onWillAppear, onWillDisappear and          *)
(* onKeyDown at most one interval timer is alive, and it is the one whose *)
(* handle updateInterval holds.                                            *)
(***************************************************************************)
C12_SingleTimer ==
    /\ Cardinality(timers) <= 1
    /\ timers # {} => timers = {updateInterval}

(***************************************************************************)
(* C13.  Whenever no tick is in flight the image, the settings and the    *)
(* state index agree: the state index is 1 iff the displayed icon is a    *)
(* pricing icon with red primary text iff settings.fiveMinPrice parses to *)
(* a value above 10, and the image is the error icon iff the title is     *)
(* "Error" (so the error icon never stands next to state 1 and the        *)
(* settings of an earlier tick).                                           *)
(***************************************************************************)
PrimaryRed(img) == IsPricingImage(img) /\ img.svg[2].fill = "#ff4444"

SettingsHigh(set) ==
    /\ set # NoSettings
    /\ LET n == parseFloat(set.fiveMinPrice) IN ~isNaN(n) /\ n.v > 10 * Pow10(Prec)

C13_SurfaceAgrees ==
    ticks = EmptyBag =>
        /\ display.state = 1 <=> PrimaryRed(display.image)
        /\ PrimaryRed(display.image) <=> SettingsHigh(display.settings)
        /\ display.image = ErrorImage <=> display.title = "Error"
        /\ display.image = ErrorImage =>
               ~(display.state = 1 /\ display.settings # NoSettings)

====
